---------------------------- MODULE Spec2Model ----------------------------
(***************************************************************************)
(* Interview practice page: the client page (pages/index.jsx, component    *)
(* Home) and the serverless API route (pages/api/interview.js, handler and *)
(* openaiCompletion), both held in src/interview_webpage_nextjs_vercel.jsx.*)
(*                                                                         *)
(* Text is a sequence of one-character strings, so that the regular        *)
(* expressions of the handler are computed character by character.         *)
(***************************************************************************)
EXTENDS Integers, Sequences, FiniteSets, TLC

(***************************************************************************)
(* Bounds of the model.                                                    *)
(***************************************************************************)
\* number of requests the page issues in one run (fetchQuestions and gradeAnswer)
MaxCalls == 3
\* length of the texts of the language model the route is served with
MaxTextLen == 5
\* number of lines of the numbered lists the route is served with
MaxLines == 2

(***************************************************************************)
(* Values the inputs are drawn from.                                       *)
(***************************************************************************)
\* the role input: its initial value (line 23) and the empty field
Roles == {"Software Engineer", ""}
\* the company input: its initial value (line 24)
Companies == {"Acme Corp"}
\* the program input: its initial value (line 25)
Programs == {"New Grad"}
\* the answer textarea: empty (line 28) or typed
Answers == {"", "my answer"}
\* process.env.OPENAI_API_KEY: unset or set
Keys == {"", "sk-test"}

\* texts the language model may return to the prompt of generate_questions
QuestionTexts ==
  { <<>>,
    <<" ", "\n", " ">>,
    <<"1", ".", " ", "a", "\n", "2", ".", " ", "b">>,
    <<"c">> }

\* the same texts and a list of three questions
LongQuestionTexts ==
  QuestionTexts \cup
    { <<"1", ".", " ", "a", "\n", "2", ".", " ", "b", "\n", "3", ".", " ", "d">> }

\* texts the language model may return to the prompt of grade_answer
GradeTexts ==
  { <<>>,
    <<"8", "\n", "o", "k">> }

\* the characters of the texts the route is served with: a digit, the period,
\* a blank, the newline and a letter
Alphabet == {"7", ".", " ", "\n", "a"}

\* the texts over Alphabet of length up to n
RECURSIVE TextsUpTo(_)
TextsUpTo(n) ==
  IF n = 0 THEN {<<>>}
  ELSE LET shorter == TextsUpTo(n - 1)
       IN shorter \cup {Append(t, c) : t \in {x \in shorter : Len(x) = n - 1},
                                       c \in Alphabet}

\* the lines of a well-formed numbered list: an ordinal, a period, blanks, the
\* question, and blanks the line may end with
ListItems ==
  [ordinal : {<<"1">>, <<"1", "2">>},
   gap : {<<" ">>, <<" ", " ">>},
   content : {<<"a">>, <<"7", ".", " ", "a", " ", "(", "b", ")">>},
   tail : {<<>>, <<" ">>}]

\* the numbered lists of up to n lines
ListsUpTo(n) == UNION {[1..k -> ListItems] : k \in 1..n}

\* the newlines between two lines of a list
Separators == {<<"\n">>, <<"\n", "\n">>}

\* the text of a list line
ItemText(item) == item.ordinal \o <<".">> \o item.gap \o item.content \o item.tail

\* the text of a numbered list whose lines are separated by sep
RECURSIVE ListText(_, _)
ListText(items, sep) ==
  IF Len(items) = 1 THEN ItemText(items[1])
  ELSE ItemText(items[1]) \o sep \o ListText(Tail(items), sep)

\* the body of the reply of api.openai.com: without choices[0], or with a text
UpstreamData(texts) ==
  {[choices |-> FALSE, content |-> <<>>]} \cup
  {[choices |-> TRUE, content |-> t] : t \in texts}

(***************************************************************************)
(* JavaScript values that are not text.                                    *)
(***************************************************************************)
\* the value of a property the object does not have
undefined == <<>>

\* data.f of a parsed JSON body: <<value>>, or undefined when data has no f
Prop(data, f) == IF f \in DOMAIN data THEN <<data[f]>> ELSE undefined

(***************************************************************************)
(* String primitives the handler uses.                                     *)
(***************************************************************************)
\* \d of a regular expression
IsDigit(c) == c \in {"0", "1", "2", "3", "4", "5", "6", "7", "8", "9"}

\* \s of a regular expression and the characters String.trim removes
IsSpace(c) == c \in {" ", "\t", "\n", "\r"}

\* value of one decimal digit
DigitVal(c) ==
  CASE c = "0" -> 0 [] c = "1" -> 1 [] c = "2" -> 2 [] c = "3" -> 3
    [] c = "4" -> 4 [] c = "5" -> 5 [] c = "6" -> 6 [] c = "7" -> 7
    [] c = "8" -> 8 [] c = "9" -> 9

\* s.split(/\n+/): the segments between maximal runs of newlines
RECURSIVE SplitNewlineRuns(_, _, _)
SplitNewlineRuns(s, cur, inRun) ==
  IF s = <<>> THEN <<cur>>
  ELSE IF Head(s) = "\n"
       THEN IF inRun THEN SplitNewlineRuns(Tail(s), <<>>, TRUE)
                     ELSE <<cur>> \o SplitNewlineRuns(Tail(s), <<>>, TRUE)
       ELSE SplitNewlineRuns(Tail(s), Append(cur, Head(s)), FALSE)

\* s.split('\n'): the segments between single newlines
RECURSIVE SplitNewline(_, _)
SplitNewline(s, cur) ==
  IF s = <<>> THEN <<cur>>
  ELSE IF Head(s) = "\n"
       THEN <<cur>> \o SplitNewline(Tail(s), <<>>)
       ELSE SplitNewline(Tail(s), Append(cur, Head(s)))

\* length of the run of digits s starts with
RECURSIVE DigitPrefixLen(_)
DigitPrefixLen(s) ==
  IF s # <<>> /\ IsDigit(Head(s)) THEN 1 + DigitPrefixLen(Tail(s)) ELSE 0

\* s without the whitespace it starts with
RECURSIVE TrimStart(_)
TrimStart(s) ==
  IF s # <<>> /\ IsSpace(Head(s)) THEN TrimStart(Tail(s)) ELSE s

\* s without the whitespace it ends with
RECURSIVE TrimEnd(_)
TrimEnd(s) ==
  IF s # <<>> /\ IsSpace(s[Len(s)])
  THEN TrimEnd(SubSeq(s, 1, Len(s) - 1)) ELSE s

\* s.trim()
Trim(s) == TrimEnd(TrimStart(s))

\* StripOrdinal with \d in the place of \d+: an ordinal of one digit only
StripOrdinal_OneDigit(s) ==
  IF Len(s) >= 2 /\ IsDigit(s[1]) /\ s[2] = "."
  THEN TrimStart(SubSeq(s, 3, Len(s)))
  ELSE s

\* s.replace(/^\d+\.\s*/, ''): drops a leading ordinal "12. "
StripOrdinal(s) ==
  LET n == DigitPrefixLen(s)
  IN IF n >= 1 /\ Len(s) >= n + 1 /\ s[n + 1] = "."
     THEN TrimStart(SubSeq(s, n + 2, Len(s)))
     ELSE s

\* a.filter(Boolean) on an array of strings: drops the empty ones
RECURSIVE FilterBoolean(_)
FilterBoolean(a) ==
  IF a = <<>> THEN <<>>
  ELSE IF Head(a) = <<>> THEN FilterBoolean(Tail(a))
       ELSE <<Head(a)>> \o FilterBoolean(Tail(a))

\* MatchDigits with /^\d+/: only the digits the line starts with
MatchDigits_Leading(s) == SubSeq(s, 1, DigitPrefixLen(s))

\* s.match(/\d+/): the first maximal run of digits, <<>> when there is none
RECURSIVE MatchDigits(_)
MatchDigits(s) ==
  IF s = <<>> THEN <<>>
  ELSE IF IsDigit(Head(s)) THEN SubSeq(s, 1, DigitPrefixLen(s))
       ELSE MatchDigits(Tail(s))

\* parseInt(d, 10) of a run of digits
RECURSIVE ParseInt(_)
ParseInt(d) ==
  IF d = <<>> THEN 0
  ELSE 10 * ParseInt(SubSeq(d, 1, Len(d) - 1)) + DigitVal(d[Len(d)])

\* a.join(' ')
RECURSIVE JoinSpace(_)
JoinSpace(a) ==
  IF a = <<>> THEN <<>>
  ELSE IF Len(a) = 1 THEN a[1]
       ELSE a[1] \o <<" ">> \o JoinSpace(Tail(a))

(***************************************************************************)
(* The API route.                                                          *)
(***************************************************************************)
\* parseQuestions with filter(Boolean) left out
parseQuestions_KeepsEmpty(resp) ==
  LET segs == SplitNewlineRuns(resp, <<>>, FALSE)
  IN [i \in 1..Len(segs) |-> Trim(StripOrdinal(segs[i]))]

\* resp.split(/\n+/).map(s=>s.replace(/^\d+\.\s*/,'').trim()).filter(Boolean)
parseQuestions(resp) ==
  LET segs == SplitNewlineRuns(resp, <<>>, FALSE)
  IN FilterBoolean([i \in 1..Len(segs) |-> Trim(StripOrdinal(segs[i]))])

\* resp.split('\n').map(l=>l.trim()).filter(Boolean)
gradeLines(resp) ==
  LET segs == SplitNewline(resp, <<>>)
  IN FilterBoolean([i \in 1..Len(segs) |-> Trim(segs[i])])

\* openaiCompletion: throws without a key or without choices[0]
openaiCompletion(key, data) ==
  IF key = "" THEN [threw |-> TRUE, message |-> "OPENAI_API_KEY not set", content |-> <<>>]
  ELSE IF ~data.choices THEN [threw |-> TRUE, message |-> "OpenAI error", content |-> <<>>]
  ELSE [threw |-> FALSE, message |-> "", content |-> data.content]

\* res.status(n).end(): a response without a JSON body
NoBody == [ended |-> TRUE]

\* IsPost without the check of the method
IsPost_Any(req) == TRUE

\* req.method !== 'POST' is false: line 140 lets the request through
IsPost(req) == req.method = "POST"

\* handler(req, res): the response to a request under a key and an upstream reply,
\* and the calls of openaiCompletion made for it
handler(req, key, data) ==
  IF ~IsPost(req)
  THEN [status |-> 405, body |-> NoBody, completions |-> <<>>]
  ELSE IF req.action = "generate_questions"
  THEN LET resp == openaiCompletion(key, data)
       IN IF resp.threw
          THEN [status |-> 500, body |-> [error |-> resp.message],
                completions |-> <<"generate_questions">>]
          ELSE [status |-> 200, body |-> [questions |-> parseQuestions(resp.content)],
                completions |-> <<"generate_questions">>]
  ELSE IF req.action = "grade_answer"
  THEN LET resp == openaiCompletion(key, data)
           lines == gradeLines(resp.content)
       IN IF resp.threw
          THEN [status |-> 500, body |-> [error |-> resp.message],
                completions |-> <<"grade_answer">>]
          ELSE IF lines = <<>>
          \* lines[0] is undefined, so lines[0].match throws a TypeError
          THEN [status |-> 500, body |-> [error |-> "TypeError"],
                completions |-> <<"grade_answer">>]
          ELSE [status |-> 200,
                body |-> [score |-> IF MatchDigits(lines[1]) # <<>>
                                    THEN ParseInt(MatchDigits(lines[1])) ELSE 0,
                          feedback |-> JoinSpace(Tail(lines))],
                completions |-> <<"grade_answer">>]
  ELSE [status |-> 400, body |-> [error |-> "invalid action"], completions |-> <<>>]

(***************************************************************************)
(* The page: the state of the component Home, the requests in flight, and  *)
(* a record of the session operation that acted last.                      *)
(***************************************************************************)
VARIABLES
  role,          \* useState('Software Engineer')
  company,       \* useState('Acme Corp')
  program,       \* useState('New Grad')
  questions,     \* useState([])
  currentIndex,  \* useState(0), 0-based as in the source
  answer,        \* useState('')
  history,       \* useState([]), most recent entry first
  loading,       \* useState(false)
  pending,       \* the calls of fetchQuestions and gradeAnswer suspended at their await fetch
  issued,        \* the number of requests issued so far
  generatedWith, \* <<role, company, program>> of the request that produced questions
  lastCall,      \* the session operation of the last step, NoCall after any other event
  api            \* the last request the route served on its own, with its response

vars == <<role, company, program, questions, currentIndex, answer, history,
          loading, pending, issued,
          generatedWith, lastCall, api>>

Min(a, b) == IF a < b THEN a ELSE b
Max(a, b) == IF a > b THEN a ELSE b

\* seq without its i-th element
RemoveAt(seq, i) == SubSeq(seq, 1, i - 1) \o SubSeq(seq, i + 1, Len(seq))

\* the session state an operation found, by its sizes
Snapshot == [questions |-> Len(questions), currentIndex |-> currentIndex,
             history |-> Len(history)]

\* no session operation acted in the last step
NoCall == [op |-> "none", req |-> undefined, status |-> 0, threw |-> FALSE,
           settled |-> "none", pre |-> undefined]

\* a session operation op: the request it sent (req), the status of the response
\* it got (0 without one), whether openaiCompletion threw, how the async
\* function settled, and the session state it found
Call(op, req, status, threw, settled, pre) ==
  [op |-> op, req |-> req, status |-> status, threw |-> threw,
   settled |-> settled, pre |-> pre]

\* questions[currentIndex] is a question (truthy)
HasQuestion(qs, i) == i + 1 \in 1..Len(qs)

\* the route has served no request on its own
NoRequest == [served |-> FALSE]

Init ==
  /\ role = "Software Engineer"
  /\ company = "Acme Corp"
  /\ program = "New Grad"
  /\ questions = <<>>
  /\ currentIndex = 0
  /\ answer = ""
  /\ history = <<>>
  /\ loading = FALSE
  /\ pending = <<>>
  /\ issued = 0
  /\ generatedWith = <<>>
  /\ lastCall = NoCall
  /\ api = NoRequest

\* onChange of the role input
setRole(v) ==
  /\ role' = v
  /\ lastCall' = NoCall
  /\ UNCHANGED <<api, company, program, questions, currentIndex, answer, history, loading, pending, issued,
                 generatedWith>>

\* onChange of the company input
setCompany(v) ==
  /\ company' = v
  /\ lastCall' = NoCall
  /\ UNCHANGED <<api, role, program, questions, currentIndex, answer, history, loading, pending, issued,
                 generatedWith>>

\* onChange of the program input
setProgram(v) ==
  /\ program' = v
  /\ lastCall' = NoCall
  /\ UNCHANGED <<api, role, company, questions, currentIndex, answer, history, loading, pending, issued,
                 generatedWith>>

\* onChange of the answer textarea, rendered when there are questions
setAnswer(v) ==
  /\ Len(questions) # 0
  /\ answer' = v
  /\ lastCall' = NoCall
  /\ UNCHANGED <<api, role, company, program, questions, currentIndex, history, loading, pending, issued,
                 generatedWith>>

\* the body fetchQuestions posts
FetchRequest ==
  [method |-> "POST", action |-> "generate_questions",
   role |-> role, company |-> company, program |-> program]

\* fetchQuestions up to its await fetch: the button is always rendered and enabled
fetchQuestions ==
  /\ issued < MaxCalls
  /\ issued' = issued + 1
  /\ loading' = TRUE
  /\ pending' = Append(pending, [req |-> FetchRequest])
  /\ lastCall' = Call("fetchQuestions", <<FetchRequest>>, 0, FALSE, "pending", undefined)
  /\ UNCHANGED <<api, role, company, program, questions, currentIndex, answer, history,
                 generatedWith>>

\* await fetch rejects (the network failed): fetchQuestions rejects at line 34
fetchQuestionsRejected(i) ==
  /\ i \in 1..Len(pending)
  /\ pending[i].req.action = "generate_questions"
  /\ pending' = RemoveAt(pending, i)
  /\ lastCall' = Call("fetchQuestionsDone", undefined, 0, FALSE, "rejected", <<Snapshot>>)
  /\ UNCHANGED <<api, role, company, program, questions, currentIndex, answer, history, loading, issued,
                 generatedWith>>

\* SetFetched with setHistory([]) left out
SetFetched_KeepsHistory(data) ==
  /\ questions' = (IF Prop(data, "questions") = undefined
                   THEN <<>> ELSE data.questions)
  /\ currentIndex' = 0
  /\ history' = history
  /\ answer' = ""
  /\ loading' = FALSE

\* the state updates of fetchQuestions from the response body data: lines 40-44
SetFetched(data) ==
  /\ questions' = (IF Prop(data, "questions") = undefined
                   THEN <<>> ELSE data.questions)
  /\ currentIndex' = 0
  /\ history' = <<>>
  /\ answer' = ""
  /\ loading' = FALSE

\* fetchQuestions from the response on: lines 39-44
fetchQuestionsDone(i, key, upstream) ==
  /\ i \in 1..Len(pending)
  /\ pending[i].req.action = "generate_questions"
  /\ LET res == handler(pending[i].req, key, upstream)
     IN /\ SetFetched(res.body)
        /\ lastCall' = Call("fetchQuestionsDone", undefined, res.status,
                            openaiCompletion(key, upstream).threw, "resolved", <<Snapshot>>)
  /\ generatedWith' = <<pending[i].req.role, pending[i].req.company, pending[i].req.program>>
  /\ pending' = RemoveAt(pending, i)
  /\ UNCHANGED <<api, role, company, program, issued>>

\* GradeRequest with the parameters of the question set instead of the inputs
GradeRequest_Generated ==
  [method |-> "POST", action |-> "grade_answer",
   role |-> generatedWith[1], company |-> generatedWith[2], program |-> generatedWith[3],
   question |-> questions[currentIndex + 1], answer |-> answer]

\* the body gradeAnswer posts
GradeRequest ==
  [method |-> "POST", action |-> "grade_answer",
   role |-> role, company |-> company, program |-> program,
   question |-> questions[currentIndex + 1], answer |-> answer]

\* gradeAnswerReturn that moves currentIndex back onto the last question
gradeAnswerReturn_Clamps ==
  /\ Len(questions) # 0
  /\ currentIndex >= Len(questions)
  /\ currentIndex' = Len(questions) - 1
  /\ lastCall' = [op |-> "gradeAnswerReturn", req |-> <<>>, status |-> 0,
                  threw |-> FALSE, settled |-> "resolved", pre |-> <<>>]
  /\ UNCHANGED <<api, role, company, program, questions, answer, history,
                 loading, pending, issued, generatedWith>>

\* gradeAnswer when questions[currentIndex] is falsy: line 48 returns
gradeAnswerReturn ==
  /\ Len(questions) # 0
  /\ ~HasQuestion(questions, currentIndex)
  /\ lastCall' = Call("gradeAnswerReturn", undefined, 0, FALSE, "resolved", <<Snapshot>>)
  /\ UNCHANGED <<api, role, company, program, questions, currentIndex, answer, history,
                 loading, pending, issued, generatedWith>>

\* gradeAnswer up to its await fetch; the button is rendered when there are questions.
\* The call keeps the questions and the answer of the render it was made in.
gradeAnswer ==
  /\ Len(questions) # 0
  /\ HasQuestion(questions, currentIndex)
  /\ issued < MaxCalls
  /\ issued' = issued + 1
  /\ loading' = TRUE
  /\ pending' = Append(pending, [req |-> GradeRequest, questions |-> questions,
                                 currentIndex |-> currentIndex, answer |-> answer])
  /\ lastCall' = Call("gradeAnswer", <<GradeRequest>>, 0, FALSE, "pending", undefined)
  /\ UNCHANGED <<api, role, company, program, questions, currentIndex, answer, history,
                 generatedWith>>

\* await fetch rejects (the network failed): gradeAnswer rejects at line 50
gradeAnswerRejected(i) ==
  /\ i \in 1..Len(pending)
  /\ pending[i].req.action = "grade_answer"
  /\ pending' = RemoveAt(pending, i)
  /\ lastCall' = Call("gradeAnswerDone", undefined, 0, FALSE, "rejected", <<Snapshot>>)
  /\ UNCHANGED <<api, role, company, program, questions, currentIndex, answer, history, loading, issued,
                 generatedWith>>

\* Entry with the answer of the textarea at the time of the response
Entry_CurrentAnswer(c, data) ==
  [question |-> c.questions[c.currentIndex + 1], answer |-> answer,
   score |-> Prop(data, "score"), feedback |-> Prop(data, "feedback")]

\* the entry gradeAnswer builds from its call c and the response body data: lines 63-68
Entry(c, data) ==
  [question |-> c.questions[c.currentIndex + 1], answer |-> c.answer,
   score |-> Prop(data, "score"), feedback |-> Prop(data, "feedback")]

\* setCurrentIndex((i) => Math.min(i + 1, questions.length - 1)) of the call c: line 71
Advance(i, c) == Min(i + 1, Len(c.questions) - 1)

\* gradeAnswer from the response on: lines 62-72
gradeAnswerDone(i, key, upstream) ==
  /\ i \in 1..Len(pending)
  /\ pending[i].req.action = "grade_answer"
  /\ LET res == handler(pending[i].req, key, upstream)
         data == res.body
     IN /\ history' = <<Entry(pending[i], data)>> \o history
        /\ lastCall' = Call("gradeAnswerDone", undefined, res.status,
                            openaiCompletion(key, upstream).threw, "resolved", <<Snapshot>>)
  /\ answer' = ""
  /\ currentIndex' = Advance(currentIndex, pending[i])
  /\ loading' = FALSE
  /\ pending' = RemoveAt(pending, i)
  /\ UNCHANGED <<api, role, company, program, questions, issued, generatedWith>>

\* onClick of Reset: line 88
Reset ==
  /\ questions' = <<>>
  /\ history' = <<>>
  /\ answer' = ""
  /\ generatedWith' = <<>>
  /\ lastCall' = Call("Reset", undefined, 0, FALSE, "none", <<Snapshot>>)
  /\ UNCHANGED <<api, role, company, program, currentIndex, loading, pending, issued>>

\* Prev with Math.max left out
Prev_Unclamped ==
  /\ Len(questions) # 0
  /\ currentIndex' = currentIndex - 1
  /\ lastCall' = Call("Prev", undefined, 0, FALSE, "none", <<Snapshot>>)
  /\ UNCHANGED <<api, role, company, program, questions, answer, history, loading, pending, issued,
                 generatedWith>>

\* onClick of Prev: line 105
Prev ==
  /\ Len(questions) # 0
  /\ currentIndex' = Max(0, currentIndex - 1)
  /\ lastCall' = Call("Prev", undefined, 0, FALSE, "none", <<Snapshot>>)
  /\ UNCHANGED <<api, role, company, program, questions, answer, history, loading, pending, issued,
                 generatedWith>>

\* onClick of Next: line 106
NextQuestion ==
  /\ Len(questions) # 0
  /\ currentIndex' = Min(Len(questions) - 1, currentIndex + 1)
  /\ lastCall' = Call("Next", undefined, 0, FALSE, "none", <<Snapshot>>)
  /\ UNCHANGED <<api, role, company, program, questions, answer, history, loading, pending, issued,
                 generatedWith>>

\* a step of the session, the model replying to generate_questions a text of texts
SessionStep(texts) ==
  \/ \E v \in Roles : setRole(v)
  \/ \E v \in Companies : setCompany(v)
  \/ \E v \in Programs : setProgram(v)
  \/ \E v \in Answers : setAnswer(v)
  \/ fetchQuestions
  \/ \E i \in 1..Len(pending) : fetchQuestionsRejected(i)
  \/ \E i \in 1..Len(pending), key \in Keys, upstream \in UpstreamData(texts) :
       fetchQuestionsDone(i, key, upstream)
  \/ gradeAnswerReturn
  \/ gradeAnswer
  \/ \E i \in 1..Len(pending) : gradeAnswerRejected(i)
  \/ \E i \in 1..Len(pending), key \in Keys, upstream \in UpstreamData(GradeTexts) :
       gradeAnswerDone(i, key, upstream)
  \/ Reset
  \/ Prev
  \/ NextQuestion

Next == SessionStep(QuestionTexts)

Spec == Init /\ [][Next]_vars

\* the session when the model may also reply a list of three questions
NextLong == SessionStep(LongQuestionTexts)

SpecLong == Init /\ [][NextLong]_vars

(***************************************************************************)
(* The route served on its own: one request of any method and action,      *)
(* under any key and any reply of the language model.                      *)
(***************************************************************************)
\* req.method
Methods == {"GET", "POST"}

\* req.body.action is undefined: the body has no action, or there is no body
NoAction == "undefined"

\* req.body.action
Actions == {"generate_questions", "grade_answer", "delete_history", NoAction}

\* the route serves a request whose upstream reply is data
ApiRequest(method, action, key, data) ==
  /\ ~api.served
  /\ LET req == [method |-> method, action |-> action]
     IN api' = [served |-> TRUE, req |-> req, key |-> key, data |-> data,
                list |-> <<>>, res |-> handler(req, key, data)]
  /\ UNCHANGED <<role, company, program, questions, currentIndex, answer, history,
                 loading, pending, issued, generatedWith, lastCall>>

\* the route serves a request whose upstream reply is the numbered list items
ApiListRequest(method, action, key, items, sep) ==
  /\ ~api.served
  /\ LET req == [method |-> method, action |-> action]
         data == [choices |-> TRUE, content |-> ListText(items, sep)]
     IN api' = [served |-> TRUE, req |-> req, key |-> key, data |-> data,
                list |-> items, res |-> handler(req, key, data)]
  /\ UNCHANGED <<role, company, program, questions, currentIndex, answer, history,
                 loading, pending, issued, generatedWith, lastCall>>

\* one request is served in a run: the route keeps no state between requests
NextApi ==
  \/ /\ ~api.served
     /\ \E method \in Methods, action \in Actions, key \in Keys,
           data \in UpstreamData(TextsUpTo(MaxTextLen)) :
          ApiRequest(method, action, key, data)
  \/ /\ ~api.served
     /\ \E method \in Methods, action \in Actions, key \in Keys,
           items \in ListsUpTo(MaxLines), sep \in Separators :
          ApiListRequest(method, action, key, items, sep)

SpecApi == Init /\ [][NextApi]_vars

(***************************************************************************)
(* Properties of the route. What a text should parse to is stated here     *)
(* from the positions of its characters, apart from the route's own steps. *)
(***************************************************************************)
\* the smallest and the largest element of a set of numbers
SetMin(S) == CHOOSE x \in S : \A y \in S : x <= y
SetMax(S) == CHOOSE x \in S : \A y \in S : x >= y

\* s from its first to its last character that is not whitespace
RefTrim(s) ==
  LET ink == {i \in 1..Len(s) : ~IsSpace(s[i])}
  IN IF ink = {} THEN <<>> ELSE SubSeq(s, SetMin(ink), SetMax(ink))

\* the lines of t (between the newlines), trimmed, the empty ones left out
RefLines(t) ==
  LET cuts == {0} \cup {i \in 1..Len(t) : t[i] = "\n"} \cup {Len(t) + 1}
      cut(k) == CHOOSE c \in cuts : Cardinality({d \in cuts : d < c}) = k - 1
      segs == [k \in 1..(Cardinality(cuts) - 1) |->
                 RefTrim(SubSeq(t, cut(k) + 1, cut(k + 1) - 1))]
  IN SelectSeq(segs, LAMBDA x : x # <<>>)

\* 10 to the n
RECURSIVE Pow10(_)
Pow10(n) == IF n = 0 THEN 1 ELSE 10 * Pow10(n - 1)

\* the number the digits line[p..q] write
RECURSIVE RefValue(_, _, _)
RefValue(line, p, q) ==
  IF p > q THEN 0
  ELSE DigitVal(line[p]) * Pow10(q - p) + RefValue(line, p + 1, q)

\* the number written by the first run of digits of line, 0 without a digit
RefScore(line) ==
  LET D == {i \in 1..Len(line) : IsDigit(line[i])}
  IN IF D = {} THEN 0
     ELSE LET p == SetMin(D)
              q == SetMax({j \in p..Len(line) : \A k \in p..j : k \in D})
          IN RefValue(line, p, q)

\* the lines a, a single blank between two of them
RECURSIVE RefJoin(_)
RefJoin(a) ==
  IF a = <<>> THEN <<>>
  ELSE RefJoin(SubSeq(a, 1, Len(a) - 1))
         \o (IF Len(a) > 1 THEN <<" ">> ELSE <<>>) \o a[Len(a)]

\* the route has served a POST of action under a key, the model replying a text
Served(action) ==
  /\ api.served
  /\ api.req.method = "POST"
  /\ api.req.action = action
  /\ api.key # ""
  /\ api.data.choices

\* C11: a grading text without a non-empty line yields score 0 and feedback ""
\* as a successful result
C11_BlankGradeIsZero ==
  (Served("grade_answer") /\ RefLines(api.data.content) = <<>>)
    => (api.res.status = 200
          /\ api.res.body = [score |-> 0, feedback |-> <<>>])

\* C12: for a grading text with a non-empty line, the score is the number
\* written by the first run of digits of the first non-empty line (0 without a
\* digit there) and the feedback is the other non-empty trimmed lines in order,
\* joined by single blanks
C12_GradeParse ==
  (Served("grade_answer") /\ RefLines(api.data.content) # <<>>)
    => LET lines == RefLines(api.data.content)
       IN /\ api.res.status = 200
          /\ api.res.body.score = RefScore(lines[1])
          /\ api.res.body.feedback = RefJoin(Tail(lines))

\* a grading text of three lines was parsed, with a digit on the first line and
\* another on the last, into a score and two lines of feedback
C12_Witness ==
  /\ Served("grade_answer")
  /\ api.data.content = <<"7", "\n", "a", "\n", "7">>
  /\ api.res.body = [score |-> 7, feedback |-> <<"a", " ", "7">>]

\* C13: a well-formed numbered list of N lines parses to N questions, the i-th
\* being the i-th line without its ordinal and the whitespace around it
C13_NumberedListParse ==
  (Served("generate_questions") /\ api.list # <<>>)
    => (api.res.status = 200
          /\ api.res.body.questions
               = [i \in 1..Len(api.list) |-> api.list[i].content])

\* a list of two lines was parsed, with an ordinal of two digits, blank lines
\* between the lines, blanks at the end of a line and a question that itself
\* starts with a number
C13_Witness ==
  /\ Served("generate_questions")
  /\ Len(api.list) = 2
  /\ api.list[2].ordinal = <<"1", "2">>
  /\ api.list[1].tail = <<" ">>
  /\ api.list[2].content[1] = "7"
  /\ Len(api.data.content) > Len(ItemText(api.list[1])) + Len(ItemText(api.list[2])) + 1
  /\ Len(api.res.body.questions) = 2

\* C20: openaiCompletion is called only for a POST of generate_questions or
\* grade_answer; another method is answered 405, another action or none 400,
\* and every request gets a response
C20_RouteDispatch ==
  api.served =>
    /\ api.res.completions # <<>>
         => (api.req.method = "POST"
               /\ api.req.action \in {"generate_questions", "grade_answer"})
    /\ api.req.method # "POST" => api.res.status = 405
    /\ (api.req.method = "POST"
          /\ api.req.action \notin {"generate_questions", "grade_answer"})
         => api.res.status = 400
    /\ api.res.status \in {200, 400, 405, 500}
    /\ Len(api.res.completions) <= 1

\* a GET of generate_questions was answered 405 without a call of the model
C20_Witness ==
  /\ api.served
  /\ api.req.method = "GET"
  /\ api.req.action = "generate_questions"
  /\ api.key # ""
  /\ api.res.status = 405
  /\ api.res.completions = <<>>

(***************************************************************************)
(* Properties of the session.                                              *)
(***************************************************************************)
\* the last step completed a call of op (its response arrived or its fetch rejected)
Completed(op) == lastCall.op = op /\ lastCall.settled \in {"resolved", "rejected"}

\* C1: in every reachable state 0 <= currentIndex < max(1, questions.length)
C1_IndexInRange ==
  0 <= currentIndex /\ currentIndex < Max(1, Len(questions))

\* C2: when the model call made for gradeAnswer fails, currentIndex and history
\* are what they were before the response arrived
C2_GradeFailureLeavesState ==
  [][(lastCall'.op = "gradeAnswerDone" /\ lastCall'.threw)
       => (history' = history /\ currentIndex' = currentIndex)]_vars

\* C3: when the model call or the network request made for fetchQuestions fails,
\* questions, currentIndex and history are left unchanged
C3_FetchFailureLeavesState ==
  [][(lastCall'.op = "fetchQuestionsDone"
        /\ (lastCall'.threw \/ lastCall'.settled = "rejected"))
       => (questions' = questions /\ currentIndex' = currentIndex
             /\ history' = history)]_vars

\* C4: an upstream failure (a missing API key included) reaches the caller as a
\* failure: the async function rejects, and no history entry is without a score
C4_UpstreamFailureSurfaces ==
  /\ (lastCall.op \in {"fetchQuestionsDone", "gradeAnswerDone"} /\ lastCall.threw)
       => lastCall.settled = "rejected"
  /\ \A k \in 1..Len(history) : history[k].score # undefined

C6_EmptyRoleSendsNothing ==
  lastCall.op = "fetchQuestions" => lastCall.req[1].role # ""

\* C7: right after a fetchQuestions succeeded, currentIndex = 0 and history is empty
C7_FetchSuccessResets ==
  (Completed("fetchQuestionsDone") /\ lastCall.status = 200)
    => (currentIndex = 0 /\ history = <<>>)

\* a fetchQuestions has just succeeded on a session that had a history and a
\* currentIndex past the first question
C7_Witness ==
  /\ Completed("fetchQuestionsDone")
  /\ lastCall.status = 200
  /\ Len(questions) > 0
  /\ lastCall.pre[1].history > 0
  /\ lastCall.pre[1].currentIndex > 0

\* C8: after Reset, questions is empty, history is empty and currentIndex is 0
C8_ResetClears ==
  lastCall.op = "Reset"
    => (questions = <<>> /\ history = <<>> /\ currentIndex = 0)

\* C9: at most one call is outstanding at any time
C9_OneCallOutstanding == Len(pending) <= 1

\* C10 as stated: every grading request for a question of the current question
\* set carries the role, company and program that generated that question set
C10_GradeCarriesGeneratingParameters ==
  lastCall.op = "gradeAnswer"
    => <<lastCall.req[1].role, lastCall.req[1].company, lastCall.req[1].program>>
         = generatedWith

\* C10 amended: every grading request carries the role, company and program the
\* inputs hold when Submit is clicked
C10_GradeCarriesCurrentParameters ==
  lastCall.op = "gradeAnswer"
    => <<lastCall.req[1].role, lastCall.req[1].company, lastCall.req[1].program>>
         = <<role, company, program>>

\* a grading request has just been sent with a role other than the one that
\* generated the question set
C10_Witness ==
  /\ lastCall.op = "gradeAnswer"
  /\ generatedWith # <<>>
  /\ lastCall.req[1].role # generatedWith[1]

\* the texts of QuestionTexts without a non-empty line
BlankQuestionTexts == {t \in QuestionTexts : RefLines(t) = <<>>}

\* C14: when the model replies to generate_questions with a text that is empty
\* or all whitespace, the fetch succeeds with no question: the session then
\* holds the empty question set and currentIndex 0
C14_BlankFetchEmpties ==
  [][(lastCall'.op = "fetchQuestionsDone" /\ ~lastCall'.threw)
       => \A i \in 1..Len(pending), t \in BlankQuestionTexts :
            (pending' = RemoveAt(pending, i)
               /\ fetchQuestionsDone(i, "sk-test", [choices |-> TRUE, content |-> t]))
              => (lastCall'.status = 200 /\ questions' = <<>> /\ currentIndex' = 0)]_vars

\* a fetchQuestions has just succeeded with no question, on a session that had
\* questions and a currentIndex past the first
C14_Witness ==
  /\ Completed("fetchQuestionsDone")
  /\ lastCall.status = 200
  /\ questions = <<>>
  /\ currentIndex = 0
  /\ lastCall.pre[1].questions > 0
  /\ lastCall.pre[1].currentIndex > 0

\* C15: Prev on the first question stays on the first question, Next on the
\* last question stays on the last
C15_NavigationSaturates ==
  /\ (lastCall.op = "Prev" /\ lastCall.pre[1].currentIndex = 0)
       => currentIndex = 0
  /\ (lastCall.op = "Next"
        /\ lastCall.pre[1].currentIndex = lastCall.pre[1].questions - 1)
       => currentIndex = lastCall.pre[1].currentIndex

\* Prev has just been clicked on the first of several questions
C15_Witness ==
  /\ lastCall.op = "Prev"
  /\ lastCall.pre[1].currentIndex = 0
  /\ lastCall.pre[1].questions > 1
  /\ currentIndex = 0

\* C16: a gradeAnswer keeps the question at currentIndex and the answer of the
\* time it was submitted, and when it succeeds it puts one entry with them in
\* front of history, the entries history had staying as they were, in order
C16_HistoryPrepends ==
  [][/\ lastCall'.op = "gradeAnswer"
          => LET c == pending'[Len(pending')]
             IN /\ HasQuestion(questions, currentIndex)
                /\ c.questions[c.currentIndex + 1] = questions[currentIndex + 1]
                /\ c.answer = answer
     /\ (lastCall'.op = "gradeAnswerDone" /\ lastCall'.settled = "resolved"
           /\ lastCall'.status = 200)
          => /\ Len(history') = Len(history) + 1
             /\ Tail(history') = history
             /\ \E i \in 1..Len(pending) :
                  /\ pending[i].req.action = "grade_answer"
                  /\ pending' = RemoveAt(pending, i)
                  /\ history'[1].question
                       = pending[i].questions[pending[i].currentIndex + 1]
                  /\ history'[1].answer = pending[i].answer]_vars

\* a second gradeAnswer has just succeeded, with an answer other than the first's
C16_Witness ==
  /\ Completed("gradeAnswerDone")
  /\ lastCall.status = 200
  /\ Len(history) = 2
  /\ history[1].answer # history[2].answer
  /\ history[1].score = <<8>>

\* C17: when the only gradeAnswer of a session succeeds, submitted on index i,
\* currentIndex becomes min(i + 1, questions.length - 1), whatever Prev and Next
\* did meanwhile (questions.length read at the submission or at the response)
C17_AdvancesFromSubmitted ==
  [][(lastCall'.op = "gradeAnswerDone" /\ lastCall'.settled = "resolved"
        /\ lastCall'.status = 200 /\ issued = 2 /\ Len(pending) = 1)
       => LET c == pending[1]
          IN \/ currentIndex' = Min(c.currentIndex + 1, Len(c.questions) - 1)
             \/ currentIndex' = Min(c.currentIndex + 1, Len(questions) - 1)]_vars

\* C18: every entry of history has a question of the current question set
C18_HistoryQuestionsCurrent ==
  \A k \in 1..Len(history) :
    \E j \in 1..Len(questions) : questions[j] = history[k].question

\* C19: loading is true while a call is outstanding, and false once every
\* started call has resolved or failed
C19_LoadingTracksOutstanding ==
  loading <=> (pending # <<>>)

=============================================================================
